---- MODULE Spec2Model ----
(***************************************************************************)
(* Flow-graph editor of the process mapper (FlowChart component):          *)
(* the node/edge graph, the connection rules of onConnect / onReconnect,   *)
(* logical renumbering, mid-edge insertion, the AI change batches of       *)
(* generateIncrementalFlow and the undo/redo history.                      *)
(*                                                                         *)
(* A node is [id, type, ref, label, lid, um, pos]:                         *)
(*   pos   position: "random" as the toolbar and the change batches place  *)
(*         a new node, "between" the ends of the edge it was inserted on,  *)
(*         "laid" where getLayoutedElements puts it, "dropped" where the   *)
(*         user dragged it to, a point other than the one the layout gives *)
(*   lid   logical id "1.1.1.<lid>", 0 for the empty string                *)
(*   um    data.user_modified                                              *)
(*   ref   identity of the node's `data` object: 0 when the object is held *)
(*         by one container only, k > 0 when the same JavaScript object is *)
(*         held by several (live state, a history snapshot, a closure).    *)
(* An edge is [id, source, target, sh, th, label]; a handle is a handle id *)
(* or "null" (a Handle without id, as React Flow reports it) or "undef"    *)
(* (an edge object built without the field).                               *)
(***************************************************************************)
EXTENDS Integers, Sequences, FiniteSets, TLC

VARIABLES nodes, edges, history, historyIndex, pushes, clock, timers, inflight,
          sent, log, errorMessage, lastProcessedTranscript, lastFragment,
          targetEdgeForInsertion

vars == <<nodes, edges, history, historyIndex, pushes, clock, timers, inflight,
          sent, log, errorMessage, lastProcessedTranscript, lastFragment,
          targetEdgeForInsertion>>

\* The transcript bookkeeping: lastProcessedTranscript is the state of that name,
\* lastFragment the fragment of the request whose response was handled last.
heard == <<lastProcessedTranscript, lastFragment>>

\* ---------------------------------------------------------------- bounds
\* Date.now() readings handed out as ids (toolbar nodes, inserted edges).
MaxClock == 4
\* Calls of saveToHistory in a run.
MaxPush == 2
\* Reconnect timers (setTimeout 100 ms) that may be pending at once.
MaxTimers == 1
\* Incremental-flow requests that may be awaiting their response at once.
MaxInflight == 1
\* Incremental-flow requests a run may send.
MaxRequests == 2
\* Changes in one response.
MaxBatch == 2

\* Limit of the history stack (saveToHistory).
HistoryLimit == 50

\* ------------------------------------------------------------- utilities
SeqToSet(s) == {s[i] : i \in DOMAIN s}

MaxOf(S) == CHOOSE x \in S : \A y \in S : y <= x

MinOf(S) == CHOOSE x \in S : \A y \in S : x <= y

RECURSIVE MapTarget(_)
\* edges.map(e => e.target)
MapTarget(es) == IF es = <<>> THEN <<>> ELSE <<Head(es).target>> \o MapTarget(Tail(es))

\* Array.prototype.filter on the index set I, order kept.
RECURSIVE FilterIdx(_, _, _)
FilterIdx(s, I, i) ==
  IF i > Len(s) THEN <<>>
  ELSE (IF i \in I THEN <<s[i]>> ELSE <<>>) \o FilterIdx(s, I, i + 1)

KeepIdx(s, I) == FilterIdx(s, I, 1)

\* ----------------------------------------------------------- node shapes
NodeTypes == {"start", "end", "default", "decision", "merge"}

\* Types that renumberByFlowSequence leaves unnumbered.
Unnumbered == {"start", "end", "decision", "merge"}

\* Handle ids of the source handles each node component renders.
SourceHandles(type) ==
  CASE type = "decision" -> {"top", "right", "bottom"}
    [] type = "merge" -> {"right"}
    [] OTHER -> {"null"}

\* Handle ids of the target handles each node component renders.
TargetHandles(type) ==
  CASE type = "decision" -> {"left"}
    [] type = "merge" -> {"top", "left", "bottom"}
    [] OTHER -> {"null"}

NodeIds(ns) == {ns[i].id : i \in DOMAIN ns}

HasNode(ns, id) == \E i \in DOMAIN ns : ns[i].id = id

\* nodes.find(n => n.id === id): the first match.
FindNode(ns, id) == ns[MinOf({i \in DOMAIN ns : ns[i].id = id})]

\* nodeMap[id] after nodes.forEach(node => nodeMap[node.id] = node): the last match.
NodeMap(ns, id) == ns[MaxOf({i \in DOMAIN ns : ns[i].id = id})]

\* ------------------------------------------------------ logical numbering
\* adjacency[id]: the targets of the edges leaving id, in edge order.
Adjacency(es, id) == MapTarget(SelectSeq(es, LAMBDA e : e.source = id))

\* A node as renumbering copies it: a fresh data object, numbered if a process step.
Renumbered(node, counter) ==
  IF node.type \in Unnumbered
    THEN [node EXCEPT !.ref = 0]
    ELSE [node EXCEPT !.ref = 0, !.lid = counter]

RECURSIVE TraverseFlow(_, _, _, _, _, _)
\* traverseFlow, with the pending calls kept as a stack of node ids.
TraverseFlow(stack, visited, out, counter, ns, es) ==
  IF stack = <<>> THEN [visited |-> visited, out |-> out, counter |-> counter]
  ELSE LET nodeId == Head(stack) IN
    IF nodeId \in visited \/ ~HasNode(ns, nodeId)
      THEN TraverseFlow(Tail(stack), visited, out, counter, ns, es)
      ELSE LET node == NodeMap(ns, nodeId) IN
        TraverseFlow(Adjacency(es, nodeId) \o Tail(stack),
                     visited \cup {nodeId},
                     Append(out, Renumbered(node, counter)),
                     IF node.type \in Unnumbered THEN counter ELSE counter + 1,
                     ns, es)

\* The calls of traverseFlow that the pending calls of stack lead to, the repeated
\* ones and the ones of ids without node included.
RECURSIVE TraverseCalls(_, _, _, _)
TraverseCalls(stack, visited, ns, es) ==
  IF stack = <<>> THEN 0
  ELSE LET nodeId == Head(stack) IN
    IF nodeId \in visited \/ ~HasNode(ns, nodeId)
      THEN 1 + TraverseCalls(Tail(stack), visited, ns, es)
      ELSE 1 + TraverseCalls(Adjacency(es, nodeId) \o Tail(stack),
                             visited \cup {nodeId}, ns, es)

\* A closing loop that appends nothing.
OrphansLeftOut(ns, i, visited, out, counter) == out

RECURSIVE AppendOrphans(_, _, _, _, _)
\* The closing nodes.forEach over the nodes the traversal did not visit.
AppendOrphans(ns, i, visited, out, counter) ==
  IF i > Len(ns) THEN out
  ELSE IF ns[i].id \in visited
    THEN AppendOrphans(ns, i + 1, visited, out, counter)
    ELSE AppendOrphans(ns, i + 1, visited,
                       Append(out, Renumbered(ns[i], counter)),
                       IF ns[i].type \in Unnumbered THEN counter ELSE counter + 1)

RECURSIVE MapId(_)
MapId(ns) == IF ns = <<>> THEN <<>> ELSE <<Head(ns).id>> \o MapId(Tail(ns))

RECURSIVE Reversed(_)
Reversed(s) == IF s = <<>> THEN <<>> ELSE Append(Reversed(Tail(s)), Head(s))

\* The numbering with the start nodes taken from a stack: the last one first.
renumberLastRootFirst(ns, es) ==
  IF ns = <<>> THEN ns
  ELSE LET incoming == {es[i].target : i \in DOMAIN es}
           startNodes == SelectSeq(ns, LAMBDA n : n.id \notin incoming)
           actualStartNodes == IF startNodes # <<>> THEN Reversed(startNodes) ELSE <<ns[1]>>
           t == TraverseFlow(MapId(actualStartNodes), {}, <<>>, 1, ns, es)
       IN AppendOrphans(ns, 1, t.visited, t.out, t.counter)

renumberByFlowSequence(ns, es) ==
  IF ns = <<>> THEN ns
  ELSE LET incoming == {es[i].target : i \in DOMAIN es}
           startNodes == SelectSeq(ns, LAMBDA n : n.id \notin incoming)
           actualStartNodes == IF startNodes # <<>> THEN startNodes ELSE <<ns[1]>>
           t == TraverseFlow(MapId(actualStartNodes), {}, <<>>, 1, ns, es)
       IN AppendOrphans(ns, 1, t.visited, t.out, t.counter)

\* getNextLogicalId compares the ids as strings: the decimal digits of a suffix.
RECURSIVE Digits(_)
Digits(n) == IF n < 10 THEN <<n>> ELSE Append(Digits(n \div 10), n % 10)

RECURSIVE LexLess(_, _)
\* a < b for JavaScript strings of digits.
LexLess(a, b) ==
  IF b = <<>> THEN FALSE
  ELSE IF a = <<>> THEN TRUE
  ELSE IF Head(a) # Head(b) THEN Head(a) < Head(b)
  ELSE LexLess(Tail(a), Tail(b))

RECURSIVE MaxLogicalId(_, _, _)
\* The for-loop of getNextLogicalId: maxId after the nodes from i on.
MaxLogicalId(ns, i, maxId) ==
  IF i > Len(ns) THEN maxId
  ELSE MaxLogicalId(ns, i + 1,
         IF ns[i].lid # 0 /\ LexLess(Digits(maxId), Digits(ns[i].lid))
           THEN ns[i].lid ELSE maxId)

getNextLogicalId(existingNodes) ==
  IF existingNodes = <<>> THEN 1 ELSE MaxLogicalId(existingNodes, 1, 0) + 1

\* -------------------------------------------------------- connection rules
MsgDuplicate == "Connection already exists at this anchor point"
MsgHandleInUse == "This connector point is already in use"
MsgStartIn == "Start node cannot have incoming connections"
MsgStartOut == "Start node can only have one outgoing connection"
MsgEndOut == "End node cannot have outgoing connections"
MsgProcessOut == "Process step can only have one outgoing connection"
MsgProcessIn == "Process step can only have one incoming connection"
MsgDecisionOut == "Decision node can have maximum 3 outgoing connections"
MsgDecisionIn == "Decision node can only have one incoming connection"
MsgNotFound == "Invalid reconnection: source or target node not found"
\* onConnect returns without a message when an endpoint is missing.
Silent == "(no message)"
Accepted == "(accepted)"

\* Limit of outgoing edges of a decision node (onConnect, onReconnect).
DecisionMaxOut == 3

OutCount(es, id) == Cardinality({i \in DOMAIN es : es[i].source = id})

InCount(es, id) == Cardinality({i \in DOMAIN es : es[i].target = id})

\* onConnect, the source-type branch: the message it leaves, "" for none.
ConnectSourceRule(sourceType, sourceOutgoing, targetIncoming) ==
  CASE sourceType = "start" ->
         IF sourceOutgoing >= 1 THEN MsgStartOut
         ELSE IF targetIncoming > 0 THEN MsgStartIn ELSE ""
    [] sourceType = "end" -> MsgEndOut
    [] sourceType = "default" -> IF sourceOutgoing >= 1 THEN MsgProcessOut ELSE ""
    [] sourceType = "decision" ->
         IF sourceOutgoing >= DecisionMaxOut THEN MsgDecisionOut ELSE ""
    [] OTHER -> ""

\* The target-type branch without the test of a process step's incoming edges.
ConnectTargetRuleNoProcess(targetType, targetIncoming) ==
  CASE targetType = "start" -> MsgStartIn
    [] targetType = "decision" -> IF targetIncoming >= 1 THEN MsgDecisionIn ELSE ""
    [] OTHER -> ""

\* onConnect, the target-type branch.
ConnectTargetRule(targetType, targetIncoming) ==
  CASE targetType = "start" -> MsgStartIn
    [] targetType = "default" -> IF targetIncoming >= 1 THEN MsgProcessIn ELSE ""
    [] targetType = "decision" -> IF targetIncoming >= 1 THEN MsgDecisionIn ELSE ""
    [] OTHER -> ""

\* onConnect's "double entry" test: an edge with the identical four fields.
ExistingConnection(es, p) ==
  \E i \in DOMAIN es : /\ es[i].source = p.source /\ es[i].target = p.target
                       /\ es[i].sh = p.sh /\ es[i].th = p.th

SourceHandleUsed(es, p) ==
  \E i \in DOMAIN es : es[i].source = p.source /\ es[i].sh = p.sh

TargetHandleUsed(es, p) ==
  \E i \in DOMAIN es : es[i].target = p.target /\ es[i].th = p.th

\* onConnect without its "double entry" test.
ConnectVerdictNoDoubleEntry(ns, es, p) ==
  IF ~HasNode(ns, p.source) \/ ~HasNode(ns, p.target) THEN Silent
  ELSE IF SourceHandleUsed(es, p) THEN MsgHandleInUse
  ELSE IF TargetHandleUsed(es, p) THEN MsgHandleInUse
  ELSE LET src == ConnectSourceRule(FindNode(ns, p.source).type,
                                    OutCount(es, p.source), InCount(es, p.target))
           tgt == ConnectTargetRule(FindNode(ns, p.target).type, InCount(es, p.target))
       IN IF tgt # "" THEN tgt ELSE IF src # "" THEN src ELSE Accepted

\* The outcome of onConnect(p) on (ns, es): Accepted, Silent or the message shown.
ConnectVerdict(ns, es, p) ==
  IF ~HasNode(ns, p.source) \/ ~HasNode(ns, p.target) THEN Silent
  ELSE IF ExistingConnection(es, p) THEN MsgDuplicate
  ELSE IF SourceHandleUsed(es, p) THEN MsgHandleInUse
  ELSE IF TargetHandleUsed(es, p) THEN MsgHandleInUse
  ELSE LET src == ConnectSourceRule(FindNode(ns, p.source).type,
                                    OutCount(es, p.source), InCount(es, p.target))
           tgt == ConnectTargetRule(FindNode(ns, p.target).type, InCount(es, p.target))
       IN IF tgt # "" THEN tgt ELSE IF src # "" THEN src ELSE Accepted

\* onReconnect, the source-type branch (counts taken without the moved edge).
ReconnectSourceRule(sourceType, sourceOutgoing) ==
  CASE sourceType = "start" -> IF sourceOutgoing >= 1 THEN MsgStartOut ELSE ""
    [] sourceType = "end" -> MsgEndOut
    [] sourceType = "default" -> IF sourceOutgoing >= 1 THEN MsgProcessOut ELSE ""
    [] sourceType = "decision" ->
         IF sourceOutgoing >= DecisionMaxOut THEN MsgDecisionOut ELSE ""
    [] OTHER -> ""

\* edges.filter(e => e.id !== id)
WithoutEdge(es, id) == SelectSeq(es, LAMBDA e : e.id # id)

\* The outcome of onReconnect(oldEdge, p) on (ns, es).
ReconnectVerdict(ns, es, oldEdge, p) ==
  IF ~HasNode(ns, p.source) \/ ~HasNode(ns, p.target) THEN MsgNotFound
  ELSE LET otherEdges == WithoutEdge(es, oldEdge.id)
           src == ReconnectSourceRule(FindNode(ns, p.source).type,
                                      OutCount(otherEdges, p.source))
           tgt == ConnectTargetRule(FindNode(ns, p.target).type,
                                    InCount(otherEdges, p.target))
       IN IF tgt # "" THEN tgt ELSE IF src # "" THEN src ELSE Accepted

\* --------------------------------------------------- React Flow edge utils
\* getEdgeId(connection): the id is made of the four fields, a missing handle as ''.
HandleText(h) == IF h \in {"null", "undef"} THEN "" ELSE h

getEdgeId(p) ==
  [k |-> "xy", a |-> p.source, b |-> HandleText(p.sh), c |-> p.target, d |-> HandleText(p.th)]

\* connectionExists of addEdge: equal handles, or both missing.
ConnectionExists(es, e) ==
  \E i \in DOMAIN es :
     /\ es[i].source = e.source /\ es[i].target = e.target
     /\ HandleText(es[i].sh) = HandleText(e.sh)
     /\ HandleText(es[i].th) = HandleText(e.th)

\* addEdge(edgeParams, edges)
addEdge(e, es) == IF ConnectionExists(es, e) THEN es ELSE Append(es, e)

\* reconnectEdge(oldEdge, newConnection, edges)
reconnectEdge(oldEdge, p, es) ==
  IF ~\E i \in DOMAIN es : es[i].id = oldEdge.id THEN es
  ELSE Append(WithoutEdge(es, oldEdge.id),
              [oldEdge EXCEPT !.id = getEdgeId(p), !.source = p.source,
                              !.target = p.target, !.sh = p.sh, !.th = p.th])

\* The edge object onConnect hands to addEdge.
ConnectEdge(ns, p) ==
  [id |-> getEdgeId(p), source |-> p.source, target |-> p.target,
   sh |-> p.sh, th |-> p.th,
   label |-> IF FindNode(ns, p.source).type = "decision"
               THEN (IF p.th = "top" THEN "Yes" ELSE "No") ELSE ""]

\* ------------------------------------------------------ mid-edge insertion
InsertedEdgeId(now, k) == [k |-> "e", a |-> now, b |-> "", c |-> k, d |-> ""]

\* handleMidStepInsertion without the test that both ends of targetEdge are nodes.
handleMidStepInsertionUnchecked(newNode, targetEdge, ns, es, now) ==
  LET filteredEdges == WithoutEdge(es, targetEdge.id)
      edge1 == [id |-> InsertedEdgeId(now, 1), source |-> targetEdge.source,
                target |-> newNode.id, sh |-> "undef", th |-> "undef", label |-> ""]
      edge2 == [id |-> InsertedEdgeId(now, 2), source |-> newNode.id,
                target |-> targetEdge.target, sh |-> "undef", th |-> "undef",
                label |-> ""]
      newEdges == filteredEdges \o <<edge1, edge2>>
  IN [nodes |-> renumberByFlowSequence(Append(ns, [newNode EXCEPT !.pos = "between"]),
                                         newEdges),
      edges |-> newEdges]

\* handleMidStepInsertion(newNode, targetEdge, nodes, edges)
handleMidStepInsertion(newNode, targetEdge, ns, es, now) ==
  IF ~HasNode(ns, targetEdge.source) \/ ~HasNode(ns, targetEdge.target)
    THEN [nodes |-> ns, edges |-> es]
    ELSE LET filteredEdges == WithoutEdge(es, targetEdge.id)
             edge1 == [id |-> InsertedEdgeId(now, 1), source |-> targetEdge.source,
                       target |-> newNode.id, sh |-> "undef", th |-> "undef", label |-> ""]
             edge2 == [id |-> InsertedEdgeId(now, 2), source |-> newNode.id,
                       target |-> targetEdge.target, sh |-> "undef", th |-> "undef",
                       label |-> ""]
             newEdges == filteredEdges \o <<edge1, edge2>>
         IN [nodes |-> renumberByFlowSequence(Append(ns, [newNode EXCEPT !.pos = "between"]),
                                         newEdges),
             edges |-> newEdges]

\* ----------------------------------------------------------------- history
\* JSON.parse(JSON.stringify(nodes)): every data object is a new one.
DeepCopy(ns) == [i \in DOMAIN ns |-> [ns[i] EXCEPT !.ref = 0]]

\* saveToHistory(newNodes, newEdges) run with the history and index it closes over.
saveToHistory(h, hi, newNodes, newEdges) ==
  LET newHistory == Append(SubSeq(h, 1, hi + 1),
                           [nodes |-> DeepCopy(newNodes), edges |-> newEdges])
  IN IF Len(newHistory) > HistoryLimit
       THEN [history |-> Tail(newHistory), historyIndex |-> hi]
       ELSE [history |-> newHistory, historyIndex |-> hi + 1]

\* undo() that steps the cursor down even when there is no snapshot below it.
undoCursorOnly(h, hi, ns, es) ==
  IF hi > 0
    THEN [nodes |-> h[hi].nodes, edges |-> h[hi].edges, historyIndex |-> hi - 1]
    ELSE [nodes |-> ns, edges |-> es, historyIndex |-> hi - 1]

\* undo() pressed with the history h, the cursor hi and the live arrays ns and es:
\* the live arrays and the cursor it leaves.
undo(h, hi, ns, es) ==
  IF hi > 0
    THEN [nodes |-> h[hi].nodes, edges |-> h[hi].edges, historyIndex |-> hi - 1]
    ELSE [nodes |-> ns, edges |-> es, historyIndex |-> hi]

\* redo()
redo(h, hi, ns, es) ==
  IF hi < Len(h) - 1
    THEN [nodes |-> h[hi + 2].nodes, edges |-> h[hi + 2].edges, historyIndex |-> hi + 1]
    ELSE [nodes |-> ns, edges |-> es, historyIndex |-> hi]

\* ------------------------------------------------- shared data objects
\* The containers that hold node objects: the live nodes, the snapshots, the
\* closures of pending reconnect timers and the node arrays captured by the
\* requests in flight.
World == [nodes |-> nodes, history |-> history, timers |-> timers,
          inflight |-> inflight]

RefsOfNodes(ns) == [i \in DOMAIN ns |-> ns[i].ref]

RECURSIVE RefsOfGraphs(_)
\* The refs of a sequence of [nodes, edges, ...] records.
RefsOfGraphs(gs) ==
  IF gs = <<>> THEN <<>> ELSE RefsOfNodes(Head(gs).nodes) \o RefsOfGraphs(Tail(gs))

RECURSIVE RefsOfTimers(_)
RefsOfTimers(ts) ==
  IF ts = <<>> THEN <<>>
  ELSE RefsOfNodes(Head(ts).nodes) \o RefsOfGraphs(Head(ts).history)
       \o RefsOfTimers(Tail(ts))

WorldRefs(w) ==
  RefsOfNodes(w.nodes) \o RefsOfGraphs(w.history) \o RefsOfTimers(w.timers)
  \o RefsOfGraphs(w.inflight)

\* Names of the data objects: an object held once gets 0, the shared ones are
\* numbered in the order in which the containers first hold them.
RefNames(all) ==
  CHOOSE names \in UNION {UNION {
      {[q \in held |->
          IF q \in shared THEN Cardinality({x \in shared : first[x] <= first[q]}) ELSE 0]
       : shared \in {{q \in held \ {0} :
                        \E i \in DOMAIN all : i > first[q] /\ all[i] = q}}}
      : first \in {[q \in held |-> MinOf({i \in DOMAIN all : all[i] = q})]}}
      : held \in {SeqToSet(all)}} : TRUE

RenameNodes(ns, f) == [i \in DOMAIN ns |-> [ns[i] EXCEPT !.ref = f[ns[i].ref]]]

RenameGraphs(gs, f) ==
  [k \in DOMAIN gs |-> [gs[k] EXCEPT !.nodes = RenameNodes(gs[k].nodes, f)]]

RenameTimers(ts, f) ==
  [k \in DOMAIN ts |-> [ts[k] EXCEPT !.nodes = RenameNodes(ts[k].nodes, f),
                                     !.history = RenameGraphs(ts[k].history, f)]]

Renamed(w, f) ==
  [nodes |-> RenameNodes(w.nodes, f), history |-> RenameGraphs(w.history, f),
   timers |-> RenameTimers(w.timers, f), inflight |-> RenameGraphs(w.inflight, f)]

Normalize(w) ==
  CHOOSE n \in {IF \A i \in DOMAIN all : all[i] = 0
                  THEN w
                  ELSE CHOOSE r \in {Renamed(w, f) : f \in {RefNames(all)}} : TRUE :
                all \in {WorldRefs(w)}} : TRUE

\* Gives a name to every data object of the array ns that has none yet, before a
\* second container takes a reference to it. base keeps the names apart.
Named(ns, base) ==
  [i \in DOMAIN ns |-> IF ns[i].ref = 0 THEN [ns[i] EXCEPT !.ref = base + i] ELSE ns[i]]

NamedHistory(h) ==
  [k \in DOMAIN h |-> [h[k] EXCEPT !.nodes = Named(h[k].nodes, 1000 * (k + 1))]]

\* An assignment through a reference: every holder of data object d.ref sees the
\* fields of d.
SeenIn(ns, d) ==
  [i \in DOMAIN ns |->
     IF ns[i].ref = d.ref
       THEN [ns[i] EXCEPT !.label = d.label, !.um = d.um]
       ELSE ns[i]]

SeenInGraphs(gs, d) ==
  [k \in DOMAIN gs |-> [gs[k] EXCEPT !.nodes = SeenIn(gs[k].nodes, d)]]

SeenInTimers(ts, d) ==
  [k \in DOMAIN ts |-> [ts[k] EXCEPT !.nodes = SeenIn(ts[k].nodes, d),
                                     !.history = SeenInGraphs(ts[k].history, d)]]

\* The world after the data object d (d.ref > 0) was assigned to in place.
Assigned(w, d) ==
  [nodes |-> SeenIn(w.nodes, d), history |-> SeenInGraphs(w.history, d),
   timers |-> SeenInTimers(w.timers, d), inflight |-> SeenInGraphs(w.inflight, d)]

\* The next state holds the containers of w, with the objects named canonically.
Holds(w) ==
  \E v \in {w} : \E n \in {Normalize(v)} :
     /\ nodes' = n.nodes
     /\ history' = n.history
     /\ timers' = n.timers
     /\ inflight' = n.inflight

\* ------------------------------------------------------------ user actions
NewNode(id, type, label, lid) ==
  [id |-> id, type |-> type, ref |-> 0, label |-> label, lid |-> lid, um |-> FALSE,
   pos |-> "random"]

\* The node each toolbar button builds; only a process step asks for a logical id.
ToolbarNode(kind, now, ns) ==
  CASE kind = "step" -> NewNode(now, "default", "New", getNextLogicalId(ns))
    [] kind = "decision" -> NewNode(now, "decision", "New", 0)
    [] kind = "merge" -> NewNode(now, "merge", "New", 0)
    [] kind = "start" -> NewNode(now, "start", "New", 0)
    [] OTHER -> NewNode(now, "end", "New", 0)

ToolbarKinds == {"step", "decision", "merge", "start", "end"}

\* The buttons that honour the mid-edge insertion mode.
InsertKinds == {"step", "decision", "merge"}

\* The params React Flow hands to onConnect and onReconnect.
Conn(s, a, t, b) == [source |-> s, target |-> t, sh |-> a, th |-> b]

\* The graph after a toolbar button, outside the insertion mode: [...nodes, newNode].
Added(g, kind, now) ==
  [nodes |-> Append(g.nodes, ToolbarNode(kind, now, g.nodes)), edges |-> g.edges]

\* The graph after onConnect(p): the new edge and the renumbered nodes if the
\* rules accept p, the same graph otherwise.
Connected(g, p) ==
  IF ConnectVerdict(g.nodes, g.edges, p) = Accepted
    THEN LET newEdges == addEdge(ConnectEdge(g.nodes, p), g.edges)
         IN [nodes |-> renumberByFlowSequence(g.nodes, newEdges), edges |-> newEdges]
    ELSE g

\* --------------------------------------------------------------- saved flows
\* Flows drawn in an earlier session, saved, and handed to the component as
\* initialFlowData: each is what the toolbar and onConnect make of the empty
\* graph, with the clock readings 1, 2, ... as node ids.
EmptyFlow == [nodes |-> <<>>, edges |-> <<>>]

RECURSIVE Built(_)
Built(kinds) ==
  IF kinds = <<>> THEN EmptyFlow
  ELSE Added(Built(SubSeq(kinds, 1, Len(kinds) - 1)), kinds[Len(kinds)], Len(kinds))

\* Two steps that join in a merge.
MergeFlow ==
  Connected(Connected(Built(<<"merge", "step", "step">>),
                      Conn(2, "null", 1, "top")), Conn(3, "null", 1, "left"))

\* A start node beside a step that feeds a merge.
StartFlow == Connected(Built(<<"start", "merge", "step">>), Conn(3, "null", 2, "top"))

\* A decision whose three outputs feed a merge.
DecisionFlow ==
  Connected(Connected(Connected(Built(<<"decision", "merge">>),
                                Conn(1, "top", 2, "top")), Conn(1, "right", 2, "left")),
            Conn(1, "bottom", 2, "bottom"))

\* start -> step -> end
ChainFlow ==
  Connected(Connected(Built(<<"start", "step", "end">>),
                      Conn(1, "null", 2, "null")), Conn(2, "null", 3, "null"))

SavedFlows == {EmptyFlow, MergeFlow, StartFlow, DecisionFlow, ChainFlow}

\* A handler that saves a snapshot, at once or from its timer, may still run.
CanPush == pushes + Len(timers) < MaxPush

\* addSimpleStep / addSimpleDecision / addMergeNode / addStartNode / addEndNode,
\* outside the insertion mode.
AddNode(kind) ==
  /\ CanPush /\ clock < MaxClock
  /\ \E g \in {Added([nodes |-> nodes, edges |-> edges], kind, clock + 1)} :
     \E s \in {saveToHistory(history, historyIndex, g.nodes, edges)} :
        /\ Holds([World EXCEPT !.nodes = g.nodes, !.history = s.history])
        /\ historyIndex' = s.historyIndex
  /\ pushes' = pushes + 1
  /\ clock' = clock + 1
  /\ UNCHANGED <<edges, sent, heard,
                 targetEdgeForInsertion, log, errorMessage>>

\* The same buttons in the insertion mode, where targetEdge is the edge object
\* targetEdgeForInsertion holds.
Inserted(kind, targetEdge) ==
  /\ CanPush /\ clock < MaxClock
  /\ \E r \in {handleMidStepInsertion(ToolbarNode(kind, clock + 1, nodes), targetEdge,
                                       nodes, edges, clock + 1)} :
     \E s \in {saveToHistory(history, historyIndex, r.nodes, r.edges)} :
        /\ Holds([World EXCEPT !.nodes = r.nodes, !.history = s.history])
        /\ edges' = r.edges
        /\ historyIndex' = s.historyIndex
  /\ pushes' = pushes + 1
  /\ clock' = clock + 1
  /\ targetEdgeForInsertion' = <<>>
  /\ UNCHANGED <<sent, heard, log, errorMessage>>

\* A click on an edge of the canvas followed at once by one of the buttons.
InsertOnEdge(kind, ei) == Inserted(kind, edges[ei])

\* handleEdgeClick and handleEdgeMouseEnter with a tool other than select: the
\* edge object is kept as the insertion target.
EdgeClick(ei) ==
  /\ targetEdgeForInsertion' = <<edges[ei]>>
  /\ UNCHANGED <<nodes, edges, history, historyIndex, pushes, clock, timers, inflight,
                 sent, heard, log, errorMessage>>

\* handleEdgeMouseLeave
EdgeMouseLeave ==
  /\ targetEdgeForInsertion # <<>>
  /\ targetEdgeForInsertion' = <<>>
  /\ UNCHANGED <<nodes, edges, history, historyIndex, pushes, clock, timers, inflight,
                 sent, heard, log, errorMessage>>

\* One of the buttons pressed while targetEdgeForInsertion holds an edge.
InsertStep(kind) ==
  /\ targetEdgeForInsertion # <<>>
  /\ Inserted(kind, targetEdgeForInsertion[1])

\* The connections a drag between two nodes can ask for; 0 is an id of no node.
Endpoints == NodeIds(nodes) \cup {0}

SourceHandlesOf(id) ==
  IF HasNode(nodes, id) THEN SourceHandles(FindNode(nodes, id).type) ELSE {"null"}

TargetHandlesOf(id) ==
  IF HasNode(nodes, id) THEN TargetHandles(FindNode(nodes, id).type) ELSE {"null"}

Connections ==
  UNION {{Conn(s, a, t, b) : a \in SourceHandlesOf(s), b \in TargetHandlesOf(t)} :
           s \in Endpoints, t \in Endpoints}

\* An edge without a handle field reports its end as a handle without id.
FixedEnd(h) == IF h = "undef" THEN "null" ELSE h

\* The connections a drag of one end of the edge e can ask for: the other end
\* stays where it is.
Reconnections(e) ==
  {p \in Connections :
     \/ p.source = e.source /\ p.sh = FixedEnd(e.sh) /\ p.target # 0
     \/ p.target = e.target /\ p.th = FixedEnd(e.th) /\ p.source # 0}

\* onConnect without the return that follows showErrorMessage: the message is
\* shown and the edge is added all the same.
OnConnectNoReturn(p) ==
  \E v \in {ConnectVerdict(nodes, edges, p)} :
     IF v = Silent
       THEN UNCHANGED vars
       ELSE /\ CanPush
            /\ \E newEdges \in {addEdge(ConnectEdge(nodes, p), edges)} :
               \E ns \in {renumberByFlowSequence(nodes, newEdges)} :
               \E s \in {saveToHistory(history, historyIndex, ns, newEdges)} :
                  /\ Holds([World EXCEPT !.nodes = ns, !.history = s.history])
                  /\ edges' = newEdges
                  /\ historyIndex' = s.historyIndex
            /\ pushes' = pushes + 1
            /\ errorMessage' = IF v = Accepted THEN errorMessage ELSE v
            /\ UNCHANGED <<clock, sent, heard,
                 targetEdgeForInsertion, log>>

\* onConnect(params)
OnConnect(p) ==
  \E v \in {ConnectVerdict(nodes, edges, p)} :
     IF v = Accepted
       THEN /\ CanPush
            /\ \E g \in {Connected([nodes |-> nodes, edges |-> edges], p)} :
               \E s \in {saveToHistory(history, historyIndex, g.nodes, g.edges)} :
                  /\ Holds([World EXCEPT !.nodes = g.nodes, !.history = s.history])
                  /\ edges' = g.edges
                  /\ historyIndex' = s.historyIndex
            /\ pushes' = pushes + 1
            /\ UNCHANGED <<clock, sent, heard,
                 targetEdgeForInsertion, log, errorMessage>>
       ELSE /\ errorMessage' = IF v = Silent THEN errorMessage ELSE v
            /\ UNCHANGED <<nodes, edges, history, historyIndex, pushes, clock, timers,
                           inflight, sent, heard,
                 targetEdgeForInsertion, log>>

\* onReconnect(oldEdge, newConnection): the edges change at once, the renumbering
\* and the snapshot are left to a timer that closes over this render's state.
OnReconnect(ei, p) ==
  \E v \in {ReconnectVerdict(nodes, edges, edges[ei], p)} :
     IF v = Accepted
       THEN /\ CanPush /\ Len(timers) < MaxTimers
            /\ \E ns \in {Named(nodes, 100)} : \E h \in {NamedHistory(history)} :
                  Holds([World EXCEPT
                    !.nodes = ns, !.history = h,
                    !.timers = Append(timers,
                       [nodes |-> ns, edges |-> edges, history |-> h,
                        historyIndex |-> historyIndex])])
            /\ edges' = reconnectEdge(edges[ei], p, edges)
            /\ UNCHANGED <<historyIndex, pushes, clock, sent, heard,
                 targetEdgeForInsertion, log, errorMessage>>
       ELSE /\ errorMessage' = v
            /\ UNCHANGED <<nodes, edges, history, historyIndex, pushes, clock, timers,
                           inflight, sent, heard,
                 targetEdgeForInsertion, log>>

\* The setTimeout callback of onReconnect, 100 ms later.
ReconnectTimer ==
  /\ timers # <<>>
  /\ \E t \in {Head(timers)} :
     \E renumberedNodes \in {renumberByFlowSequence(t.nodes, t.edges)} :
     \E s \in {saveToHistory(t.history, t.historyIndex, renumberedNodes, t.edges)} :
        /\ Holds([World EXCEPT !.nodes = renumberedNodes, !.history = s.history,
                               !.timers = Tail(timers)])
        \* on a full stack saveToHistory does not call setHistoryIndex: the
        \* cursor stays where it is now, not where the closure saw it
        /\ historyIndex' = IF s.historyIndex = t.historyIndex THEN historyIndex
                                                              ELSE s.historyIndex
  /\ pushes' = pushes + 1
  /\ UNCHANGED <<edges, clock, sent, heard,
                 targetEdgeForInsertion, log, errorMessage>>

\* The commit shared by the delete handlers.
Deleted(newNodes, newEdges) ==
  \E es \in {newEdges} : \E renumberedNodes \in {renumberByFlowSequence(newNodes, es)} :
  \E s \in {saveToHistory(history, historyIndex, renumberedNodes, es)} :
     /\ Holds([World EXCEPT !.nodes = renumberedNodes, !.history = s.history])
     /\ edges' = es
     /\ historyIndex' = s.historyIndex
     /\ pushes' = pushes + 1
     /\ UNCHANGED <<clock, sent, heard,
                 targetEdgeForInsertion, log, errorMessage>>

\* handleNodeClick with the delete tool.
DeleteNode(id) ==
  /\ CanPush
  /\ Deleted(SelectSeq(nodes, LAMBDA n : n.id # id),
             SelectSeq(edges, LAMBDA e : e.source # id /\ e.target # id))

\* deleteSelectedNodes; I is the set of positions of the selected nodes.
DeleteSelectedNodes(I) ==
  /\ CanPush
  /\ LET selectedNodeIds == {nodes[i].id : i \in I}
     IN Deleted(KeepIdx(nodes, DOMAIN nodes \ I),
                SelectSeq(edges, LAMBDA e : e.source \notin selectedNodeIds
                                            /\ e.target \notin selectedNodeIds))

\* handleEdgeClick with the delete tool, handleEdgeDelete.
DeleteEdge(id) ==
  /\ CanPush
  /\ Deleted(nodes, WithoutEdge(edges, id))

\* undo: the live arrays become the arrays of the snapshot below the cursor.
Undo ==
  /\ historyIndex > 0
  /\ \E h \in {NamedHistory(history)} :
        Holds([World EXCEPT !.nodes = h[historyIndex].nodes, !.history = h])
  /\ edges' = history[historyIndex].edges
  /\ historyIndex' = historyIndex - 1
  /\ UNCHANGED <<pushes, clock, sent, heard,
                 targetEdgeForInsertion, log, errorMessage>>

\* redo
Redo ==
  /\ historyIndex < Len(history) - 1
  /\ \E h \in {NamedHistory(history)} :
        Holds([World EXCEPT !.nodes = h[historyIndex + 2].nodes, !.history = h])
  /\ edges' = history[historyIndex + 2].edges
  /\ historyIndex' = historyIndex + 1
  /\ UNCHANGED <<pushes, clock, sent, heard,
                 targetEdgeForInsertion, log, errorMessage>>

\* Labels a user types.
UserLabels == {"User"}

\* handleTextBlur of a node component: an assignment to the data object itself.
EditLabel(i, editText) ==
  /\ editText # nodes[i].label
  /\ \E d \in {[nodes[i] EXCEPT !.label = editText, !.um = TRUE]} :
        IF d.ref = 0
          THEN Holds([World EXCEPT !.nodes = [nodes EXCEPT ![i] = d]])
          ELSE Holds(Assigned(World, d))
  /\ UNCHANGED <<edges, historyIndex, pushes, clock, sent, heard,
                 targetEdgeForInsertion, log, errorMessage>>

\* handleNodesChange with the position change of a drag: onNodesChange moves the
\* node; the user_modified the handler puts on the change object reaches no node.
DragNode(i) ==
  /\ Holds([World EXCEPT !.nodes = [nodes EXCEPT ![i].pos = "dropped"]])
  /\ UNCHANGED <<edges, historyIndex, pushes, clock, sent, heard,
                 targetEdgeForInsertion, log, errorMessage>>

\* The timers of showErrorMessage: the message is taken down again.
DismissError ==
  /\ errorMessage # ""
  /\ errorMessage' = ""
  /\ UNCHANGED <<nodes, edges, history, historyIndex, pushes, clock, timers,
                 inflight, sent, heard,
                 targetEdgeForInsertion, log>>

\* --------------------------------------------- incremental flow generation
\* Nodes the service proposes in a run.
MaxAiIds == 1

AiNodeIds == 101 .. (100 + MaxAiIds)

\* The changes of a response, as the service words them; lid is the logical_id of
\* the node of an add_node change, 0 for a change that carries none.
AddNodeChange(id, ntype) ==
  [type |-> "add_node", id |-> id, arg |-> ntype, target |-> 0, lid |-> 0]

UpdateNodeChange(id, label) ==
  [type |-> "update_node", id |-> id, arg |-> label, target |-> 0, lid |-> 0]

AddEdgeChange(source, target, condition) ==
  [type |-> "add_edge", id |-> source, arg |-> condition, target |-> target, lid |-> 0]

\* The changes a response may carry: the service proposes process steps, renames
\* the first node of the flow or a node it proposed, and draws edges from the first
\* node of the flow.
ResponseChanges ==
  {AddNodeChange(id, "default") : id \in AiNodeIds}
  \cup {UpdateNodeChange(id, "Upd") : id \in {1} \cup AiNodeIds}
  \cup {AddEdgeChange(1, t, "") : t \in {2} \cup AiNodeIds}

Batches == UNION {[1 .. n -> ResponseChanges] : n \in 1 .. MaxBatch}

\* A transcript fragment that never comes twice.
OtherFragment == "(other)"

\* generateIncrementalFlow up to its request, called with a fragment that is not
\* a repetition: the node and edge arrays the call reads from the refs are the
\* ones its response will be applied to.
StartRequest ==
  /\ Len(inflight) < MaxInflight /\ sent < MaxRequests
  /\ \E ns \in {Named(nodes, 100)} :
        Holds([World EXCEPT !.nodes = ns,
                            !.inflight = Append(inflight,
                               [nodes |-> ns, edges |-> edges,
                                transcript |-> OtherFragment])])
  /\ sent' = sent + 1
  /\ UNCHANGED <<edges, historyIndex, pushes, clock, log, errorMessage, heard,
                 targetEdgeForInsertion>>

Without(s, k) == SubSeq(s, 1, k - 1) \o SubSeq(s, k + 1, Len(s))

\* A call that ends without setAiProcessingStatus('idle').
StillGenerating(calls, k) == calls

\* The calls under way once call k has reached a setAiProcessingStatus('idle')
\* at its end: after "No changes to apply", at the end of the try block, or in
\* the catch block.
Released(calls, k) == Without(calls, k)

\* A response without changes, which ends with setLastProcessedTranscript, or a
\* failed request, which ends in the catch block: nothing is applied.
EmptyResponse(k) ==
  /\ Holds([World EXCEPT !.inflight = Released(inflight, k)])
  /\ log' = <<>>
  /\ \E processed \in BOOLEAN :
        /\ lastProcessedTranscript' =
             IF processed THEN inflight[k].transcript ELSE lastProcessedTranscript
        /\ lastFragment' = IF processed THEN inflight[k].transcript ELSE lastFragment
  /\ UNCHANGED <<edges, historyIndex, pushes, clock, sent, errorMessage,
                 targetEdgeForInsertion>>

EdgeIdsOf(gs) == UNION {{gs[k].edges[i].id : i \in DOMAIN gs[k].edges} : k \in DOMAIN gs}

\* Every edge id some container still holds.
KnownEdgeIds ==
  {edges[i].id : i \in DOMAIN edges} \cup EdgeIdsOf(history) \cup EdgeIdsOf(timers)
  \cup UNION {EdgeIdsOf(timers[k].history) : k \in DOMAIN timers}
  \cup EdgeIdsOf(inflight)

AiEdgeId(n) == [k |-> "ai", a |-> n, b |-> "", c |-> 0, d |-> ""]

\* uuidv4(): an id that no edge carries.
NewEdgeId(used) ==
  AiEdgeId(MinOf({n \in 1 .. (Cardinality(used) + 1) : AiEdgeId(n) \notin used}))

\* An update_node change that does not look at user_modified.
UpdatedNodeUnguarded(node, label) == [node EXCEPT !.label = label]

\* The label an update_node change writes, unless the node is user modified.
UpdatedNode(node, label) == IF node.um THEN node ELSE [node EXCEPT !.label = label]

\* An add_edge change that builds its edge from the target to the source.
ChangeEdgeReversed(ns, source, target, condition, id) ==
  [id |-> id, source |-> target, target |-> source, sh |-> "undef", th |-> "undef",
   label |-> IF FindNode(ns, source).type = "decision"
               THEN (IF condition # "" THEN condition ELSE "Yes/No") ELSE ""]

\* The edge an add_edge change builds.
ChangeEdge(ns, source, target, condition, id) ==
  [id |-> id, source |-> source, target |-> target, sh |-> "undef", th |-> "undef",
   label |-> IF FindNode(ns, source).type = "decision"
               THEN (IF condition # "" THEN condition ELSE "Yes/No") ELSE ""]

\* What the console shows for a change.
LogAddedNode == "Added new node"
LogUpdated == "Updated node (AI)"
LogSkipped == "Skipping update - node was user modified"
LogAddedEdge == "Added new edge"
LogOrphan == "Skipping orphan edge - missing nodes"

Logged(msg, c) == [msg |-> msg, id |-> c.id, target |-> c.target]

\* One turn of changes.forEach that warns about an orphan edge and pushes it all
\* the same.
ApplyChangeKeepingOrphan(c, r) ==
  CASE c.type = "add_node" ->
         [r EXCEPT !.nodes = Append(@, NewNode(c.id, c.arg, "AI", c.lid)),
                   !.log = Append(@, Logged(LogAddedNode, c))]
    [] c.type = "update_node" ->
         IF ~HasNode(r.nodes, c.id) THEN r
         ELSE LET nodeIndex == MinOf({i \in DOMAIN r.nodes : r.nodes[i].id = c.id})
                  d == UpdatedNode(r.nodes[nodeIndex], c.arg)
                  line == Logged(IF r.nodes[nodeIndex].um THEN LogSkipped ELSE LogUpdated, c)
              IN IF d.ref = 0
                   THEN [r EXCEPT !.nodes[nodeIndex] = d, !.log = Append(@, line)]
                   ELSE [r EXCEPT !.nodes = SeenIn(@, d), !.world = Assigned(@, d),
                                  !.log = Append(@, line)]
    [] OTHER ->
         LET id == NewEdgeId(r.used)
             orphan == ~(HasNode(r.nodes, c.id) /\ HasNode(r.nodes, c.target))
         IN [r EXCEPT !.edges = Append(@, IF orphan
                                            THEN [id |-> id, source |-> c.id,
                                                  target |-> c.target, sh |-> "undef",
                                                  th |-> "undef", label |-> ""]
                                            ELSE ChangeEdge(r.nodes, c.id, c.target,
                                                            c.arg, id)),
                      !.used = @ \cup {id},
                      !.log = Append(@, Logged(IF orphan THEN LogOrphan ELSE LogAddedEdge,
                                               c))]

\* One turn of changes.forEach. r holds updatedNodes and updatedEdges, the edge ids
\* in use, the console lines and the other containers, whose node objects an
\* update_node change assigns to when they are the objects of updatedNodes.
ApplyChange(c, r) ==
  CASE c.type = "add_node" ->
         [r EXCEPT !.nodes = Append(@, NewNode(c.id, c.arg, "AI", c.lid)),
                   !.log = Append(@, Logged(LogAddedNode, c))]
    [] c.type = "update_node" ->
         IF ~HasNode(r.nodes, c.id) THEN r
         ELSE LET nodeIndex == MinOf({i \in DOMAIN r.nodes : r.nodes[i].id = c.id})
                  d == UpdatedNode(r.nodes[nodeIndex], c.arg)
                  line == Logged(IF r.nodes[nodeIndex].um THEN LogSkipped ELSE LogUpdated, c)
              IN IF d.ref = 0
                   THEN [r EXCEPT !.nodes[nodeIndex] = d, !.log = Append(@, line)]
                   ELSE [r EXCEPT !.nodes = SeenIn(@, d), !.world = Assigned(@, d),
                                  !.log = Append(@, line)]
    [] OTHER ->
         IF HasNode(r.nodes, c.id) /\ HasNode(r.nodes, c.target)
           THEN LET id == NewEdgeId(r.used)
                IN [r EXCEPT !.edges = Append(@, ChangeEdge(r.nodes, c.id, c.target,
                                                            c.arg, id)),
                             !.used = @ \cup {id},
                             !.log = Append(@, Logged(LogAddedEdge, c))]
           ELSE [r EXCEPT !.log = Append(@, Logged(LogOrphan, c))]

\* changes.forEach leaving the loop at the first orphan edge.
RECURSIVE ApplyChangesUntilOrphan(_, _)
ApplyChangesUntilOrphan(cs, r) ==
  IF cs = <<>> THEN r
  ELSE CHOOSE out \in
         {IF Len(next.log) > Len(r.log) /\ next.log[Len(next.log)].msg = LogOrphan
            THEN next ELSE ApplyChangesUntilOrphan(Tail(cs), next)
          : next \in {ApplyChange(Head(cs), r)}} : TRUE

\* changes.forEach run over the add_node changes of the batch first and over the
\* other changes after them.
RECURSIVE ApplyChangesNodesFirst(_, _)
ApplyChangesNodesFirst(cs, r) ==
  IF cs = <<>> THEN r
  ELSE CHOOSE out \in
         {ApplyChangesNodesFirst(Without(cs, j), ApplyChange(cs[j], r))
          : j \in {IF \E i \in DOMAIN cs : cs[i].type = "add_node"
                     THEN MinOf({i \in DOMAIN cs : cs[i].type = "add_node"})
                     ELSE 1}} : TRUE

RECURSIVE ApplyChanges(_, _)
ApplyChanges(cs, r) ==
  IF cs = <<>> THEN r
  ELSE CHOOSE out \in {ApplyChanges(Tail(cs), next) : next \in {ApplyChange(Head(cs), r)}} :
         TRUE

\* The source handles getLayoutedElements gives to the edges of decision nodes.
LayoutHandle(k) == CASE k = 1 -> "right" [] k = 2 -> "top" [] OTHER -> "bottom"

\* edgesWithHandles of getLayoutedElements.
LayoutedEdges(ns, es) ==
  [i \in DOMAIN es |->
     LET outgoing == {j \in DOMAIN es : es[j].source = es[i].source}
     IN IF /\ HasNode(ns, es[i].source)
           /\ FindNode(ns, es[i].source).type = "decision"
           /\ Cardinality(outgoing) <= DecisionMaxOut
          THEN [es[i] EXCEPT !.sh = LayoutHandle(Cardinality({j \in outgoing : j <= i}))]
          ELSE es[i]]

\* layoutedNodes of getLayoutedElements: every node gets the position dagre
\* computes for it.
LayoutedNodes(ns) == [i \in DOMAIN ns |-> [ns[i] EXCEPT !.pos = "laid"]]

\* The updatedNodes and updatedEdges a response with the changes cs leaves, applied
\* to the arrays its request captured.
Reconciled(k, cs) ==
  ApplyChanges(cs, [world |-> [World EXCEPT !.inflight = Released(inflight, k)],
                    nodes |-> inflight[k].nodes, edges |-> inflight[k].edges,
                    used |-> KnownEdgeIds, log |-> <<>>])

\* A response with changes: they are applied to the captured arrays, the result is
\* laid out and becomes the live graph. The call of setFlowData that follows names
\* nothing defined in the component, so the function leaves through its catch
\* block before saveToHistory and before setLastProcessedTranscript.
Response(k, cs) ==
  /\ \E r \in {Reconciled(k, cs)} :
        /\ Holds([r.world EXCEPT !.nodes = LayoutedNodes(r.nodes)])
        /\ edges' = LayoutedEdges(r.nodes, r.edges)
        /\ log' = r.log
  /\ lastFragment' = inflight[k].transcript
  /\ UNCHANGED <<historyIndex, pushes, clock, sent, lastProcessedTranscript,
                 errorMessage, targetEdgeForInsertion>>

\* ----------------------------------------------------------- specifications
\* The component mounted with one of the flows as initialFlowData.
Mounted(flows) ==
  /\ \E f \in flows : nodes = f.nodes /\ edges = f.edges /\ clock = Len(f.nodes)
  /\ history = <<>>
  /\ historyIndex = -1
  /\ pushes = 0
  /\ timers = <<>>
  /\ inflight = <<>>
  /\ sent = 0
  /\ log = <<>>
  /\ errorMessage = ""
  /\ lastProcessedTranscript = ""
  /\ lastFragment = ""
  /\ targetEdgeForInsertion = <<>>

Init == Mounted(SavedFlows)

\* The editing handlers of the canvas and its toolbar, with the connections the
\* rules accept.
Next ==
  \/ \E kind \in ToolbarKinds : AddNode(kind)
  \/ \E kind \in InsertKinds, ei \in DOMAIN edges : InsertOnEdge(kind, ei)
  \/ \E p \in Connections : ConnectVerdict(nodes, edges, p) = Accepted /\ OnConnect(p)
  \/ \E ei \in DOMAIN edges : \E p \in Reconnections(edges[ei]) :
        ReconnectVerdict(nodes, edges, edges[ei], p) = Accepted /\ OnReconnect(ei, p)
  \/ ReconnectTimer
  \/ \E id \in NodeIds(nodes) : DeleteNode(id)
  \/ \E I \in SUBSET DOMAIN nodes : Cardinality(I) >= 2 /\ DeleteSelectedNodes(I)
  \/ \E i \in DOMAIN edges : DeleteEdge(edges[i].id)
  \/ Undo
  \/ Redo

Spec == Init /\ [][Next]_vars

\* Mid-edge insertion with the target kept across other edits of the canvas.
InsertInit == Mounted({ChainFlow, DecisionFlow})

InsertNext ==
  \/ \E ei \in DOMAIN edges : EdgeClick(ei)
  \/ EdgeMouseLeave
  \/ \E kind \in InsertKinds : InsertStep(kind)
  \/ \E id \in NodeIds(nodes) : DeleteNode(id)
  \/ \E i \in DOMAIN edges : DeleteEdge(edges[i].id)

InsertSpec == InsertInit /\ [][InsertNext]_vars

\* Every attempt to draw or to move an edge, accepted or not.
ConnectNext ==
  \/ \E p \in Connections : OnConnect(p)
  \/ \E ei \in DOMAIN edges : \E p \in Reconnections(edges[ei]) : OnReconnect(ei, p)
  \/ ReconnectTimer
  \/ DismissError

ConnectSpec == Init /\ [][ConnectNext]_vars

FlowInit == Mounted({StartFlow, DecisionFlow})

\* Label edits and the requests and responses of generateIncrementalFlow.
FlowNext ==
  \/ \E i \in DOMAIN nodes, l \in UserLabels : EditLabel(i, l)
  \/ StartRequest
  \/ \E k \in DOMAIN inflight : EmptyResponse(k)
  \/ \E k \in DOMAIN inflight, cs \in Batches : Response(k, cs)

FlowSpec == FlowInit /\ [][FlowNext]_vars

LayoutInit == Mounted({StartFlow})

\* Nodes are dragged between the requests and responses of
\* generateIncrementalFlow.
LayoutNext ==
  \/ \E i \in DOMAIN nodes : DragNode(i)
  \/ StartRequest
  \/ \E k \in DOMAIN inflight : EmptyResponse(k)
  \/ \E k \in DOMAIN inflight, cs \in Batches : Response(k, cs)

LayoutSpec == LayoutInit /\ [][LayoutNext]_vars

\* Requests a run sends while edges are being moved.
RaceRequests == 1

RaceInit == Mounted({StartFlow})

\* An edge is moved while a request is out: the timer of onReconnect against the
\* response of generateIncrementalFlow.
RaceNext ==
  \/ \E ei \in DOMAIN edges : \E p \in Reconnections(edges[ei]) :
        ReconnectVerdict(nodes, edges, edges[ei], p) = Accepted /\ OnReconnect(ei, p)
  \/ ReconnectTimer
  \/ sent < RaceRequests /\ StartRequest
  \/ \E k \in DOMAIN inflight : EmptyResponse(k)
  \/ \E k \in DOMAIN inflight, cs \in Batches : Response(k, cs)

RaceSpec == RaceInit /\ [][RaceNext]_vars

EditInit == Mounted({StartFlow})

\* Labels are edited between deletions, undo and redo and the request and
\* response of one call of generateIncrementalFlow.
EditNext ==
  \/ \E id \in NodeIds(nodes) : DeleteNode(id)
  \/ Undo
  \/ Redo
  \/ \E i \in DOMAIN nodes, l \in UserLabels : EditLabel(i, l)
  \/ sent < RaceRequests /\ StartRequest
  \/ \E k \in DOMAIN inflight : EmptyResponse(k)
  \/ \E k \in DOMAIN inflight, cs \in Batches : Response(k, cs)

EditSpec == EditInit /\ [][EditNext]_vars

MeanwhileInit == Mounted({StartFlow})

\* The user adds a node, draws an edge or edits a label between the request and
\* the response of one call of generateIncrementalFlow.
MeanwhileNext ==
  \/ inflight # <<>> /\ \E kind \in ToolbarKinds : AddNode(kind)
  \/ /\ inflight # <<>>
     /\ \E p \in Connections : ConnectVerdict(nodes, edges, p) = Accepted /\ OnConnect(p)
  \/ inflight # <<>> /\ \E i \in DOMAIN nodes, l \in UserLabels : EditLabel(i, l)
  \/ sent < RaceRequests /\ StartRequest
  \/ \E k \in DOMAIN inflight : EmptyResponse(k)
  \/ \E k \in DOMAIN inflight, cs \in Batches : Response(k, cs)

MeanwhileSpec == MeanwhileInit /\ [][MeanwhileNext]_vars

\* ------------------------------------------------------ live transcripts
\* Fragments a speaker may repeat.
Fragments == {"a", "b"}

\* aiProcessingStatus: 'generating' from the request of generateIncrementalFlow
\* until the call ends.
aiProcessingStatus == IF inflight = <<>> THEN "idle" ELSE "generating"

\* generateIncrementalFlow(t) in a closure that sees lastSeen as
\* lastProcessedTranscript and statusSeen as aiProcessingStatus: the duplicate
\* check, the guard against overlapping calls, then the request.
Requested(t, lastSeen, statusSeen) ==
  IF t = lastSeen \/ statusSeen = "generating"
    THEN UNCHANGED vars
    ELSE /\ \E ns \in {Named(nodes, 100)} :
              Holds([World EXCEPT !.nodes = ns,
                                  !.inflight = Append(inflight,
                                     [nodes |-> ns, edges |-> edges, transcript |-> t])])
         /\ sent' = sent + 1
         /\ UNCHANGED <<edges, historyIndex, pushes, clock, log, errorMessage, heard,
                 targetEdgeForInsertion>>

\* handleNewTranscript: a typed fragment goes to the generateIncrementalFlow of
\* the latest render, memoized again whenever lastProcessedTranscript or
\* accumulatedTranscript changed.
NewTranscript(t) ==
  /\ sent < MaxRequests
  /\ Requested(t, lastProcessedTranscript, aiProcessingStatus)

\* What the render that started the recording saw: nothing processed yet, no
\* call under way.
RecorderSaw == [lastProcessedTranscript |-> "", aiProcessingStatus |-> "idle"]

\* recorder.onstop every ten seconds: processAudioBlob and, through it, the
\* generateIncrementalFlow of the render in which startRecording ran.
AudioChunk(t) ==
  /\ sent < MaxRequests
  /\ Requested(t, RecorderSaw.lastProcessedTranscript, RecorderSaw.aiProcessingStatus)

LiveInit == Mounted({StartFlow})

\* Typed and spoken fragments and the responses to their requests.
LiveNext ==
  \/ \E t \in Fragments : NewTranscript(t)
  \/ \E t \in Fragments : AudioChunk(t)
  \/ \E k \in DOMAIN inflight : EmptyResponse(k)
  \/ \E k \in DOMAIN inflight, cs \in Batches : Response(k, cs)

LiveSpec == LiveInit /\ [][LiveNext]_vars

\* The awaited request of call k settles: its promise resolves, with or without
\* changes, or rejects, and the rest of generateIncrementalFlow runs.
Settled(k) ==
  /\ k \in DOMAIN inflight
  /\ (EmptyResponse(k) \/ \E cs \in Batches : Response(k, cs))

\* The live mode in which every request settles.
LiveFairSpec == LiveSpec /\ \A k \in 1 .. MaxRequests : WF_vars(Settled(k))

\* ------------------------------------------------------ a long history
\* Two process steps, the flow an edge is drawn on and deleted from again.
PairFlow == Built(<<"step", "step">>)

\* The component after n edits of PairFlow, the edge 1 -> 2 drawn (onConnect) and
\* deleted (handleEdgeDelete) in turn, each edit saving its snapshot.
RECURSIVE Toggled(_)
Toggled(n) ==
  IF n = 0
    THEN [nodes |-> PairFlow.nodes, edges |-> PairFlow.edges, history |-> <<>>,
          historyIndex |-> -1]
    ELSE CHOOSE out \in
           {LET g == IF w.edges = <<>>
                       THEN Connected([nodes |-> w.nodes, edges |-> w.edges],
                                      Conn(1, "null", 2, "null"))
                       ELSE [nodes |-> renumberByFlowSequence(w.nodes, <<>>),
                             edges |-> <<>>]
                s == saveToHistory(w.history, w.historyIndex, g.nodes, g.edges)
            IN [nodes |-> g.nodes, edges |-> g.edges, history |-> s.history,
                historyIndex |-> s.historyIndex]
            : w \in {Toggled(n - 1)}} : TRUE

\* How many edits lie behind the states the runs below start in: none, a few,
\* and enough to fill the stack.
RecordedEdits == {0, 2, HistoryLimit - 1, HistoryLimit, HistoryLimit + 1}

\* Presses of undo that may take the cursor below the tip of the history.
MaxUndo == 3

HistoryInit ==
  /\ \E n \in RecordedEdits : \E w \in {Toggled(n)} :
        /\ nodes = w.nodes /\ edges = w.edges
        /\ history = w.history /\ historyIndex = w.historyIndex
        /\ clock = Len(w.nodes)
  /\ pushes = 0
  /\ timers = <<>>
  /\ inflight = <<>>
  /\ sent = 0
  /\ log = <<>>
  /\ errorMessage = ""
  /\ lastProcessedTranscript = ""
  /\ lastFragment = ""
  /\ targetEdgeForInsertion = <<>>

\* Edits that save snapshots, and undo and redo between them.
HistoryNext ==
  \/ \E p \in Connections : ConnectVerdict(nodes, edges, p) = Accepted /\ OnConnect(p)
  \/ \E ei \in DOMAIN edges : \E p \in Reconnections(edges[ei]) :
        ReconnectVerdict(nodes, edges, edges[ei], p) = Accepted /\ OnReconnect(ei, p)
  \/ ReconnectTimer
  \/ \E i \in DOMAIN edges : DeleteEdge(edges[i].id)
  \/ Len(history) - 1 - historyIndex < MaxUndo /\ Undo
  \/ Redo

HistorySpec == HistoryInit /\ [][HistoryNext]_vars

\* ------------------------------------------------ numbering of drawn flows
\* Nodes and edges of a flow the service draws.
MaxDrawnNodes == 3
MaxDrawnEdges == 2

\* The nodes a change of the service may add: its type, and the logical id the
\* change carries if it carries one.
DrawnKinds == {"step", "decision", "numbered decision", "merge"}

DrawnNode(id, kind) ==
  CASE kind = "step" -> NewNode(id, "default", "AI", 0)
    [] kind = "decision" -> NewNode(id, "decision", "AI", 0)
    [] kind = "numbered decision" -> NewNode(id, "decision", "AI", 1)
    [] OTHER -> NewNode(id, "merge", "AI", 0)

DrawnNodes(n) == {[i \in 1 .. n |-> DrawnNode(i, kinds[i])] : kinds \in [1 .. n -> DrawnKinds]}

DrawnPairs(n) == {pair \in (1 .. n) \X (1 .. n) : pair[1] # pair[2]}

DrawnEdgeLists(n) ==
  UNION {{es \in [1 .. m -> DrawnPairs(n)] : \A i, j \in 1 .. m : i # j => es[i] # es[j]} :
           m \in 0 .. MaxDrawnEdges}

\* The flows the add_node and add_edge changes of the service build on an empty
\* canvas: add_edge asks for nothing but the two nodes.
DrawnFlows ==
  UNION {{[nodes |-> ns,
           edges |-> [k \in DOMAIN es |->
                        ChangeEdge(ns, es[k][1], es[k][2], "", AiEdgeId(k))]] :
            ns \in DrawnNodes(n), es \in DrawnEdgeLists(n)} : n \in 1 .. MaxDrawnNodes}

\* A flow of the user: the branches of a decision rejoin in a merge.
RejoinFlow ==
  Connected(Connected(Connected(Connected(Built(<<"decision", "step", "merge", "step">>),
                                          Conn(1, "top", 3, "top")),
                                Conn(1, "right", 2, "null")),
                      Conn(2, "null", 3, "left")),
            Conn(3, "right", 4, "null"))

NumberInit == Mounted(DrawnFlows \cup {RejoinFlow})

\* renumberByFlowSequence applied to the live graph.
Renumber ==
  /\ nodes' = renumberByFlowSequence(nodes, edges)
  /\ UNCHANGED <<edges, history, historyIndex, pushes, clock, timers, inflight, sent, heard,
                 targetEdgeForInsertion,
                 log, errorMessage>>

\* The numbering, on its own and after the deletion of an edge.
NumberNext ==
  \/ Renumber
  \/ \E i \in DOMAIN edges : DeleteEdge(edges[i].id)

NumberSpec == NumberInit /\ [][NumberNext]_vars

\* ------------------------------------------------- numbering of any graph
\* Nodes and edges of the arrays handed to renumberByFlowSequence.
MaxLooseNodes == 3
MaxLooseEdges == 3

\* Arrays of nodes with the ids 1 .. n: process steps, the first one a merge in
\* some.
LooseNodes(n) ==
  {[i \in 1 .. n |-> NewNode(i, IF i = 1 THEN first ELSE "default", "New", 0)] :
     first \in {"default", "merge"}}

\* Edges between any two ids, an id with itself and the id 0 of no node included.
LooseEdgeLists(n) ==
  UNION {{es \in [1 .. m -> (0 .. n) \X (0 .. n)] :
            \A i, j \in 1 .. m : i # j => es[i] # es[j]} : m \in 0 .. MaxLooseEdges}

\* Every graph within the bounds: with cycles, self-loops, without a root, with
\* edges whose ends are missing.
LooseFlows ==
  UNION {{[nodes |-> ns,
           edges |-> [k \in DOMAIN es |->
                        [id |-> AiEdgeId(k), source |-> es[k][1], target |-> es[k][2],
                         sh |-> "undef", th |-> "undef", label |-> ""]]] :
            ns \in LooseNodes(n), es \in LooseEdgeLists(n)} : n \in 1 .. MaxLooseNodes}

LooseInit == Mounted(LooseFlows)

LooseNext == Renumber

LooseSpec == LooseInit /\ [][LooseNext]_vars

\* ------------------------------------------------- logical ids of new steps
\* Process steps on the canvas when a toolbar button is pressed.
MaxSteps == 11

\* n process steps numbered 1.1.1.1, 1.1.1.2, ... as renumberByFlowSequence
\* numbers them, the number d left out (a step that was deleted) when d <= n.
NumberedSteps(n, d) ==
  [i \in 1 .. n |-> NewNode(20 + i, "default", "New", IF i < d THEN i ELSE i + 1)]

StepsInit ==
  /\ \E n \in 0 .. MaxSteps : \E d \in 1 .. (n + 1) : nodes = NumberedSteps(n, d)
  /\ edges = <<>>
  /\ clock = 0
  /\ history = <<>>
  /\ historyIndex = -1
  /\ pushes = 0
  /\ timers = <<>>
  /\ inflight = <<>>
  /\ sent = 0
  /\ log = <<>>
  /\ errorMessage = ""
  /\ lastProcessedTranscript = ""
  /\ lastFragment = ""
  /\ targetEdgeForInsertion = <<>>

\* The toolbar buttons, outside the insertion mode.
StepsNext == \E kind \in ToolbarKinds : AddNode(kind)

StepsSpec == StepsInit /\ [][StepsNext]_vars

\* ------------------------------------------------------- scenario batches
\* The two batches of the acceptance scenarios: the nodes n1 .. n5 are 101 .. 105.
ScenarioA ==
  <<AddNodeChange(101, "start"), AddNodeChange(102, "default"), AddEdgeChange(101, 102, "")>>

ScenarioB ==
  <<AddNodeChange(103, "decision"), AddEdgeChange(102, 103, ""),
    AddNodeChange(104, "default"), AddEdgeChange(103, 104, "Yes"),
    AddNodeChange(105, "end"), AddEdgeChange(104, 105, "")>>

\* The runs of consecutive changes of a batch.
Slices(cs) == {SubSeq(cs, a, b) : a \in 1 .. Len(cs), b \in 1 .. Len(cs)} \ {<<>>}

\* A response carries a scenario batch or a part of one.
ScenarioBatches == Slices(ScenarioA) \cup Slices(ScenarioB)

ScenarioInit == Mounted({EmptyFlow})

\* The requests and responses of generateIncrementalFlow on a canvas that starts
\* empty.
ScenarioNext ==
  \/ StartRequest
  \/ \E k \in DOMAIN inflight : EmptyResponse(k)
  \/ \E k \in DOMAIN inflight, cs \in ScenarioBatches : Response(k, cs)

ScenarioSpec == ScenarioInit /\ [][ScenarioNext]_vars

\* ------------------------------------------------------ order of a batch
\* The changes of scenario A in every order, and every part of them.
OrderBatches ==
  {cs \in UNION {[1 .. n -> SeqToSet(ScenarioA)] : n \in 1 .. Len(ScenarioA)} :
     \A i, j \in DOMAIN cs : i # j => cs[i] # cs[j]}

OrderInit == Mounted({EmptyFlow})

\* Responses whose add_edge change comes before, between or after the add_node
\* changes of its endpoints.
OrderNext ==
  \/ StartRequest
  \/ \E k \in DOMAIN inflight : EmptyResponse(k)
  \/ \E k \in DOMAIN inflight, cs \in OrderBatches : Response(k, cs)

OrderSpec == OrderInit /\ [][OrderNext]_vars

\* ------------------------------------------------------------------ claims
\* C1: no dangling edges - in every state the source and the target of every
\* live edge are ids of live nodes, whatever reconnections, timers and
\* reconciliation responses came before.
NoDanglingEdges ==
  \A i \in DOMAIN edges : HasNode(nodes, edges[i].source) /\ HasNode(nodes, edges[i].target)

\* C2: user edits win - a response of generateIncrementalFlow, whatever its
\* batch of changes and however many responses came before, leaves every node of
\* the list it works on that is user modified, at its place and with its label.
UserEditsWin ==
  [][\A k \in DOMAIN inflight : \A cs \in Batches :
       Response(k, cs) =>
         \A i \in DOMAIN inflight[k].nodes :
            inflight[k].nodes[i].um =>
              /\ i \in DOMAIN nodes'
              /\ nodes'[i].id = inflight[k].nodes[i].id
              /\ nodes'[i].um
              /\ nodes'[i].label = inflight[k].nodes[i].label]_vars

\* C2, the case: the last response skipped an update_node change for a node that
\* is user modified and still carries the label the user typed.
UserEditKept ==
  \E l \in DOMAIN log :
     /\ log[l].msg = LogSkipped
     /\ \E i \in DOMAIN nodes :
           nodes[i].id = log[l].id /\ nodes[i].um /\ nodes[i].label \in UserLabels

\* C3: a start node never has two outgoing edges in the live graph, add_edge
\* changes of reconciliation responses included.
StartAtMostOneOut ==
  \A i \in DOMAIN nodes : nodes[i].type = "start" => OutCount(edges, nodes[i].id) <= 1

\* C4: a decision node never has more than three outgoing edges in the live
\* graph, add_edge changes of reconciliation responses included.
DecisionAtMostThreeOut ==
  \A i \in DOMAIN nodes :
     nodes[i].type = "decision" => OutCount(edges, nodes[i].id) <= DecisionMaxOut

\* C5: the degree limits per node type under user editing - a process step has at
\* most one incoming and one outgoing edge, a decision at most one incoming edge,
\* a start node no incoming edge and an end node no outgoing edge.
DegreeLimits ==
  \A i \in DOMAIN nodes :
     LET id == nodes[i].id
         type == nodes[i].type
     IN /\ type = "default" => InCount(edges, id) <= 1 /\ OutCount(edges, id) <= 1
        /\ type = "decision" => InCount(edges, id) <= 1
        /\ type = "start" => InCount(edges, id) = 0
        /\ type = "end" => OutCount(edges, id) = 0

\* C5, the case: after an edit of this session a process step sits at both of its
\* limits.
ProcessAtLimits ==
  /\ pushes > 0
  /\ \E i \in DOMAIN nodes :
        /\ nodes[i].type = "default"
        /\ InCount(edges, nodes[i].id) = 1
        /\ OutCount(edges, nodes[i].id) = 1

SharedPort(e, f) ==
  \/ e.source = f.source /\ e.sh = f.sh
  \/ e.target = f.target /\ e.th = f.th

\* C7: one edge per port - no two edges of the live graph share a source and
\* source handle, or a target and target handle.
OneEdgePerPort ==
  \A i \in DOMAIN edges : \A j \in DOMAIN edges : i # j => ~SharedPort(edges[i], edges[j])

\* C8: a rejected onConnect or onReconnect leaves the nodes, the edges, the
\* history and the history cursor as they were.
RejectionIsNoOp ==
  [][(\/ \E p \in Connections :
           ConnectVerdict(nodes, edges, p) # Accepted /\ OnConnect(p)
      \/ \E ei \in DOMAIN edges : \E p \in Reconnections(edges[ei]) :
           ReconnectVerdict(nodes, edges, edges[ei], p) # Accepted /\ OnReconnect(ei, p))
       => UNCHANGED <<nodes, edges, history, historyIndex>>]_vars

\* C8, the case: a message of the degree rules is on screen in a session that has
\* a snapshot to lose.
RejectedAfterEdit ==
  /\ errorMessage \in {MsgStartIn, MsgStartOut, MsgEndOut, MsgProcessOut, MsgProcessIn,
                       MsgDecisionOut, MsgDecisionIn, MsgHandleInUse}
  /\ history # <<>>

\* C9: onReconnect accepts moving an edge exactly when onConnect would accept the
\* new connection on the graph without that edge.
ReconnectLikeConnect ==
  \A ei \in DOMAIN edges : \A p \in Reconnections(edges[ei]) :
     (ReconnectVerdict(nodes, edges, edges[ei], p) = Accepted)
       <=> (ConnectVerdict(nodes, WithoutEdge(edges, edges[ei].id), p) = Accepted)

\* The source may take one more outgoing edge by the table of its type.
BelowOutgoingLimit(type, outgoing) ==
  CASE type = "start" -> outgoing < 1
    [] type = "default" -> outgoing < 1
    [] type = "decision" -> outgoing < DecisionMaxOut
    [] type = "end" -> FALSE
    [] OTHER -> TRUE

\* C10: a connection into an end or a merge node whose ports are free and whose
\* source is below its outgoing limit is accepted, whatever the type of the source
\* and however many edges the target already has.
EndMergeUnbounded ==
  \A p \in Connections :
     (/\ HasNode(nodes, p.source) /\ HasNode(nodes, p.target)
      /\ FindNode(nodes, p.target).type \in {"end", "merge"}
      /\ ~SourceHandleUsed(edges, p) /\ ~TargetHandleUsed(edges, p)
      /\ BelowOutgoingLimit(FindNode(nodes, p.source).type, OutCount(edges, p.source)))
       => ConnectVerdict(nodes, edges, p) = Accepted

\* C11: when a start node has an outgoing edge, onConnect answers every further
\* connection drawn from it with the message of the start node's output limit.
StartLimitReason ==
  \A p \in Connections :
     (/\ HasNode(nodes, p.source) /\ HasNode(nodes, p.target)
      /\ FindNode(nodes, p.source).type = "start"
      /\ OutCount(edges, p.source) >= 1)
       => ConnectVerdict(nodes, edges, p) = MsgStartOut

\* The live graph as renumberByFlowSequence numbers it.
Numbered == renumberByFlowSequence(nodes, edges)

\* C12: after the numbering the logical id of a process step is the logical id of
\* no other node, of whatever type.
UniqueProcessIds ==
  \A i \in DOMAIN Numbered : \A j \in DOMAIN Numbered :
     (i # j /\ Numbered[i].type = "default") => Numbered[i].lid # Numbered[j].lid

\* The nodes one edge away from the nodes of S.
Successors(es, S) == {es[i].target : i \in {k \in DOMAIN es : es[k].source \in S}}

RECURSIVE ReachFrom(_, _)
\* The nodes of S and every node a directed path leads to from them.
ReachFrom(es, S) ==
  IF Successors(es, S) \subseteq S THEN S ELSE ReachFrom(es, S \cup Successors(es, S))

\* The nodes after id on some directed path.
After(es, id) == ReachFrom(es, Successors(es, {id}))

\* The nodes on the directed paths that start at a node without incoming edge.
OnRootPath(ns, es) ==
  ReachFrom(es, {id \in NodeIds(ns) : \A i \in DOMAIN es : es[i].target # id})

Acyclic(ns, es) == \A id \in NodeIds(ns) : id \notin After(es, id)

\* C13: on a graph without cycles that keeps the degree limits, after the
\* numbering, a process step met later on a directed path from a root carries a
\* greater suffix than a process step met earlier on it.
IncreasingOnPaths ==
  (DegreeLimits /\ Acyclic(nodes, edges)) =>
    \A i \in DOMAIN Numbered : \A j \in DOMAIN Numbered :
       (/\ Numbered[i].type = "default" /\ Numbered[j].type = "default"
        /\ Numbered[i].id \in OnRootPath(nodes, edges)
        /\ Numbered[j].id \in After(edges, Numbered[i].id))
         => Numbered[i].lid < Numbered[j].lid

\* C14: the numbering is idempotent - numbering the numbered node list again, with
\* the same edges, gives every node the logical id the first run gave it.
NumberingIdempotent ==
  LET again == renumberByFlowSequence(Numbered, edges)
  IN /\ NodeIds(again) = NodeIds(Numbered)
     /\ \A i \in DOMAIN Numbered : \A j \in DOMAIN again :
           again[j].id = Numbered[i].id => again[j].lid = Numbered[i].lid

\* C14, the case: a numbered node list that the numbering has put in an order
\* other than the order of the ids, with two roots and a numbered process step.
NumberedOutOfOrder ==
  /\ nodes = Numbered
  /\ \E i \in DOMAIN nodes : nodes[i].type = "default" /\ nodes[i].lid > 1
  /\ \E i \in DOMAIN nodes : \E j \in DOMAIN nodes : i < j /\ nodes[i].id > nodes[j].id
  /\ Cardinality({id \in NodeIds(nodes) : \A i \in DOMAIN edges : edges[i].target # id}) >= 2

\* The console lines of a batch whose changes were all applied.
AppliedLines(cs) ==
  [i \in DOMAIN cs |->
     Logged(IF cs[i].type = "add_node" THEN LogAddedNode ELSE LogAddedEdge, cs[i])]

\* The first response of the session was scenario A, applied to the empty canvas.
ScenarioADone == sent = 1 /\ inflight = <<>> /\ log = AppliedLines(ScenarioA)

\* C15: scenario A on the empty graph leaves two nodes and one edge, the process
\* step n2 numbered 1.1.1.1 and the start node n1 without logical id.
ScenarioANumbered ==
  ScenarioADone =>
    /\ Len(nodes) = 2 /\ Len(edges) = 1
    /\ HasNode(nodes, 101) /\ FindNode(nodes, 101).lid = 0
    /\ HasNode(nodes, 102) /\ FindNode(nodes, 102).lid = 1

\* The second response was scenario B, applied to the graph scenario A left.
ScenarioBDone ==
  /\ sent = 2 /\ inflight = <<>> /\ log = AppliedLines(ScenarioB)
  /\ Len(nodes) = 5 /\ NodeIds(nodes) = 101 .. 105 /\ Len(edges) = 4

\* C16: scenario B after scenario A leaves the process step n4 numbered 1.1.1.2,
\* the decision n3 without logical id and the edge n3 -> n4 with the condition Yes.
ScenarioBNumbered ==
  ScenarioBDone =>
    /\ FindNode(nodes, 104).lid = 2
    /\ FindNode(nodes, 103).lid = 0
    /\ \E i \in DOMAIN edges :
          edges[i].source = 103 /\ edges[i].target = 104 /\ edges[i].label = "Yes"

\* The change cs[j] of the response to request k is an add_edge change that finds
\* one of its endpoints missing when its turn comes.
OrphanAt(k, cs, j) ==
  /\ cs[j].type = "add_edge"
  /\ \E before \in {Reconciled(k, SubSeq(cs, 1, j - 1))} :
        ~(HasNode(before.nodes, cs[j].id) /\ HasNode(before.nodes, cs[j].target))

\* The next state holds the graph the reconciliation r leaves.
Committed(r) ==
  /\ Holds([r.world EXCEPT !.nodes = LayoutedNodes(r.nodes)])
  /\ edges' = LayoutedEdges(r.nodes, r.edges)

\* C17: an add_edge change with a missing endpoint is dropped and the batch goes
\* on - the response leaves the graph that the batch without that change leaves,
\* and the console shows the orphan line after the lines of the changes before it
\* and, around it, the lines of the batch without that change.
OrphanDroppedAlone ==
  [][\A k \in DOMAIN inflight : \A cs \in Batches :
       Response(k, cs) =>
         \A j \in DOMAIN cs :
            OrphanAt(k, cs, j) =>
              \E r \in {Reconciled(k, Without(cs, j))} :
              \E at \in {Len(Reconciled(k, SubSeq(cs, 1, j - 1)).log) + 1} :
                 /\ Committed(r)
                 /\ Len(log') = Len(r.log) + 1
                 /\ log'[at] = Logged(LogOrphan, cs[j])
                 /\ Without(log', at) = r.log]_vars

\* C17, the case: the last response dropped an orphan edge and then applied the
\* change that followed it.
AppliedAfterOrphan ==
  /\ Len(log) = 2
  /\ log[1].msg = LogOrphan
  /\ log[2].msg = LogAddedNode
  /\ HasNode(nodes, log[2].id)

\* The console lines of a batch all of whose changes are dropped as orphan edges.
OrphanLines(cs) == [i \in DOMAIN cs |-> Logged(LogOrphan, cs[i])]

\* The response to request k with the batch cs replays that batch: the batch holds
\* add_edge changes only, the response before it dropped every one of them, and
\* the request captured the graph as it is now.
Replays(k, cs) ==
  /\ \A i \in DOMAIN cs : cs[i].type = "add_edge"
  /\ log = OrphanLines(cs)
  /\ DeepCopy(inflight[k].nodes) = DeepCopy(nodes)
  /\ inflight[k].edges = edges
  /\ Response(k, cs)

\* C18: replaying a batch of add_edge changes whose nodes were never added leaves
\* the nodes and the edges as they were before the replay and shows the same
\* dropped edges; the state it leaves is again one the batch can be replayed in.
OrphanReplayIdempotent ==
  [][\A k \in DOMAIN inflight : \A cs \in Batches :
       Replays(k, cs) =>
         /\ DeepCopy(nodes') = DeepCopy(nodes)
         /\ edges' = edges
         /\ log' = log]_vars

\* C18, the case: two responses came back, the last one dropped every change of
\* its batch as an orphan edge, and the edges of the decision are the laid out ones.
OrphanBatchReplayed ==
  /\ sent = 2 /\ inflight = <<>>
  /\ log # <<>> /\ \A l \in DOMAIN log : log[l].msg = LogOrphan
  /\ nodes # <<>> /\ nodes[1].type = "decision"
  /\ edges = LayoutedEdges(nodes, edges)

\* C19: node ids stay unique under reconciliation - whatever batches the
\* responses carried, no two nodes of the live graph have the same id.
NodeIdsUnique ==
  \A i, j \in DOMAIN nodes : i # j => nodes[i].id # nodes[j].id

\* C20: an add_edge change of a batch appends its edge only where onConnect would
\* accept that connection on the working graph of that moment - for every
\* response and every add_edge change of its batch that is not dropped as an
\* orphan, the connection rules accept the edge on the nodes and edges the
\* changes before it left.
BatchEdgesValidated ==
  [][\A k \in DOMAIN inflight : \A cs \in Batches :
       Response(k, cs) =>
         \A j \in DOMAIN cs :
            (cs[j].type = "add_edge" /\ ~OrphanAt(k, cs, j)) =>
              \E before \in {Reconciled(k, SubSeq(cs, 1, j - 1))} :
                 ConnectVerdict(before.nodes, before.edges,
                                Conn(cs[j].id, "undef", cs[j].target, "undef"))
                   = Accepted]_vars

\* C21: a batch is one editing transaction - a response with a batch of at least
\* one change pushes exactly one snapshot onto the history, the cursor moves onto
\* it, and the snapshot is the graph the response commits.
BatchIsOneSnapshot ==
  [][\A k \in DOMAIN inflight : \A cs \in Batches :
       Response(k, cs) =>
         /\ Len(history') = Len(history) + 1
         /\ historyIndex' = Len(history') - 1
         /\ DeepCopy(history'[Len(history')].nodes) = DeepCopy(nodes')
         /\ history'[Len(history')].edges = edges']_vars

\* C22: one undo right after a batch brings back the graph the batch before it
\* committed - pressed once scenario B is applied on top of scenario A, undo
\* leaves the two nodes and the one edge of scenario A.
UndoRestoresScenarioA ==
  ScenarioBDone =>
    \E g \in {undo(history, historyIndex, nodes, edges)} :
       /\ Len(g.nodes) = 2 /\ NodeIds(g.nodes) = {101, 102}
       /\ Len(g.edges) = 1

\* The update_node change cs[j] finds its node, not user modified, when its turn
\* comes, and no later change of the batch updates that node again.
LastValidUpdate(k, cs, j) ==
  /\ cs[j].type = "update_node"
  /\ \A l \in DOMAIN cs : (l > j /\ cs[l].type = "update_node") => cs[l].id # cs[j].id
  /\ \E before \in {Reconciled(k, SubSeq(cs, 1, j - 1))} :
        HasNode(before.nodes, cs[j].id) /\ ~FindNode(before.nodes, cs[j].id).um

CursorValid ==
  IF history = <<>> THEN historyIndex = -1
  ELSE 0 <= historyIndex /\ historyIndex <= Len(history) - 1

\* A history without the names of its data objects.
Copies(h) == [k \in DOMAIN h |-> [h[k] EXCEPT !.nodes = DeepCopy(h[k].nodes)]]

\* C24: the history never holds more than 50 snapshots, and a snapshot saved
\* while the stack is full and the cursor at its tip evicts the oldest one - the
\* other 49 move down one place, the new snapshot is the last and the cursor is on it.
FullStackEvictsOldest ==
  /\ [][Len(history') <= HistoryLimit]_vars
  /\ [][(/\ Len(history) = HistoryLimit /\ historyIndex = HistoryLimit - 1
          /\ pushes' = pushes + 1) =>
          /\ Len(history') = HistoryLimit
          /\ historyIndex' = HistoryLimit - 1
          /\ SubSeq(Copies(history'), 1, HistoryLimit - 1) = Tail(Copies(history))]_vars

\* The live arrays and the cursor, as undo and redo return them.
Live == [nodes |-> nodes, edges |-> edges, historyIndex |-> historyIndex]

\* C25: undo and redo are no-ops at the bounds and keep the cursor valid - the
\* cursor always points into a non-empty history; undo pressed at the oldest
\* snapshot and redo pressed at the newest leave the live arrays and the cursor
\* as they are; and every step of undo or redo that does move leaves what the
\* handler computes, a cursor one place away and the arrays of that snapshot.
UndoRedoWithinBounds ==
  /\ [](CursorValid)
  /\ [](historyIndex <= 0 => undo(history, historyIndex, nodes, edges) = Live)
  /\ [](historyIndex >= Len(history) - 1 =>
          redo(history, historyIndex, nodes, edges) = Live)
  /\ [][Undo => \E g \in {undo(history, historyIndex, nodes, edges)} :
                  /\ DeepCopy(nodes') = DeepCopy(g.nodes) /\ edges' = g.edges
                  /\ historyIndex' = g.historyIndex
                  /\ historyIndex' = historyIndex - 1]_vars
  /\ [][Redo => \E g \in {redo(history, historyIndex, nodes, edges)} :
                  /\ DeepCopy(nodes') = DeepCopy(g.nodes) /\ edges' = g.edges
                  /\ historyIndex' = g.historyIndex
                  /\ historyIndex' = historyIndex + 1]_vars

\* C25, the case: undo has brought the cursor down to the oldest of several
\* snapshots, where a further press finds nothing below.
UndoneToOldest ==
  /\ historyIndex = 0 /\ Len(history) >= 2
  /\ DeepCopy(nodes) = DeepCopy(history[1].nodes) /\ edges = history[1].edges

\* C26: history is linear - a snapshot saved while the cursor is below the tip
\* discards every snapshot above the cursor: the history it leaves is the
\* snapshots up to the cursor and the new one, the cursor is on the new one, and
\* redo finds nothing to bring back.
HistoryLinear ==
  [][(pushes' = pushes + 1 /\ historyIndex < Len(history) - 1) =>
       /\ Len(history') = historyIndex + 2
       /\ SubSeq(Copies(history'), 1, historyIndex + 1)
            = SubSeq(Copies(history), 1, historyIndex + 1)
       /\ historyIndex' = Len(history') - 1
       /\ redo(history', historyIndex', nodes', edges')
            = [nodes |-> nodes', edges |-> edges', historyIndex |-> historyIndex']]_vars

\* C27: at most one reconciliation request is in flight at any time.
OneRequestInFlight == Len(inflight) <= 1

\* C28: duplicate suppression - a fragment handed to handleNewTranscript that is
\* the fragment of the request processed last, whether that request ended
\* without changes or applied a batch, sends no request and leaves the graph and
\* the history as they are.
NoRepeatedRequest ==
  [][\A t \in Fragments :
       (NewTranscript(t) /\ t = lastFragment) =>
         /\ sent' = sent /\ inflight' = inflight
         /\ nodes' = nodes /\ edges' = edges
         /\ history' = history /\ historyIndex' = historyIndex]_vars

\* C29: stale results are discarded - a response to a request that was sent
\* before a request still in flight leaves the nodes and the edges as they are.
StaleResponseDiscarded ==
  [][\A k \in DOMAIN inflight : \A cs \in Batches :
       (Response(k, cs) /\ k < Len(inflight)) =>
         (DeepCopy(nodes') = DeepCopy(nodes) /\ edges' = edges)]_vars

\* The source and target pairs of a list of edges.
Ends(es) == {<<es[i].source, es[i].target>> : i \in DOMAIN es}

\* The nodes of a list without their numbering.
WithoutNumbers(ns) == {[ns[i] EXCEPT !.lid = 0, !.ref = 0] : i \in DOMAIN ns}

\* C30: mid-edge insertion is atomic - a button pressed in the insertion mode with
\* the target edge e = (s, t) and the new node n either leaves exactly the old
\* nodes plus n and the old edges without e plus s -> n and n -> t, or leaves
\* nodes and edges as they were; it leaves them as they were when s or t is no
\* longer a node.
MidEdgeInsertionAtomic ==
  [][\A kind \in InsertKinds :
       InsertStep(kind) =>
         LET e == targetEdgeForInsertion[1]
             n == clock + 1
             kept == WithoutEdge(edges, e.id)
             same == DeepCopy(nodes') = DeepCopy(nodes) /\ edges' = edges
         IN /\ \/ same
               \/ /\ n \notin NodeIds(nodes)
                  /\ Len(nodes') = Len(nodes) + 1
                  /\ \E new \in WithoutNumbers(nodes') :
                        /\ new.id = n
                        /\ WithoutNumbers(nodes') = WithoutNumbers(nodes) \cup {new}
                  /\ SubSeq(edges', 1, Len(kept)) = kept
                  /\ Len(edges') = Len(kept) + 2
                  /\ Ends(SubSeq(edges', Len(kept) + 1, Len(edges')))
                       = {<<e.source, n>>, <<n, e.target>>}
            /\ (~HasNode(nodes, e.source) \/ ~HasNode(nodes, e.target)) => same]_vars

\* A button pressed with a target edge whose source or target had been deleted
\* saved the graph as it was: the two snapshots on top of the stack are equal
\* and the insertion mode is over.
StaleInsertionIgnored ==
  /\ historyIndex >= 1
  /\ history[historyIndex + 1] = history[historyIndex]
  /\ targetEdgeForInsertion = <<>>

\* The logical id each node id carries in the array ns.
LogicalIds(ns) == {<<ns[i].id, ns[i].lid>> : i \in DOMAIN ns}

\* The numbering of ns is the one renumberByFlowSequence gives it with the edges es.
Current(ns, es) == LogicalIds(ns) = LogicalIds(renumberByFlowSequence(ns, es))

\* C31: numbering is always current - after every step that changes the set of
\* live nodes or the live edges (a node added or deleted, an edge drawn, moved
\* or deleted, an insertion, a reconciliation batch) the logical ids of the live
\* nodes are the ones renumberByFlowSequence computes for the live graph.
NumberingCurrent ==
  [][(edges' # edges \/ NodeIds(nodes') # NodeIds(nodes) \/ Len(nodes') # Len(nodes))
       => Current(nodes', edges')]_vars

\* C32: the snapshot at the cursor matches the live graph - after every step
\* that changes the live nodes, the live edges or the cursor (an accepted edit,
\* undo, redo), and once the timer of a reconnection has run, the nodes and
\* edges stored at history[cursor] are the live nodes and edges; after a
\* reconnection the stored edges hold the moved edge.
SnapshotMatchesLive ==
  [][(/\ timers' = <<>>
      /\ \/ edges' # edges
         \/ DeepCopy(nodes') # DeepCopy(nodes)
         \/ historyIndex' # historyIndex)
       => /\ historyIndex' \in 0 .. Len(history') - 1
          /\ DeepCopy(history'[historyIndex' + 1].nodes) = DeepCopy(nodes')
          /\ history'[historyIndex' + 1].edges = edges']_vars

\* The ids of the nodes the working graph of the response to request k holds when
\* the turn of the change cs[j] comes: the nodes the request captured and the
\* nodes of the add_node changes before cs[j].
KnownAt(k, cs, j) ==
  NodeIds(inflight[k].nodes)
  \cup {cs[i].id : i \in {i \in 1 .. (j - 1) : cs[i].type = "add_node"}}

\* C33: the changes of a batch are applied in list order against one working
\* graph - an add_edge change appends its edge when both endpoints are captured
\* nodes or nodes of add_node changes earlier in the batch, and is dropped, with
\* the orphan line on the console, when an endpoint is the node of a later
\* add_node change only; the edges appended are the accepted ones, in list order.
BatchAppliedInOrder ==
  [][\A k \in DOMAIN inflight : \A cs \in OrderBatches :
       Response(k, cs) =>
         \E links \in {{j \in DOMAIN cs :
                          /\ cs[j].type = "add_edge"
                          /\ cs[j].id \in KnownAt(k, cs, j)
                          /\ cs[j].target \in KnownAt(k, cs, j)}} :
         \E accepted \in {KeepIdx(cs, links)} :
            /\ Len(edges') = Len(inflight[k].edges) + Len(accepted)
            /\ \A i \in DOMAIN accepted :
                  /\ edges'[Len(inflight[k].edges) + i].source = accepted[i].id
                  /\ edges'[Len(inflight[k].edges) + i].target = accepted[i].target
            /\ \A j \in DOMAIN cs :
                  (cs[j].type = "add_edge" /\ j \notin links) =>
                     \E l \in DOMAIN log' : log'[l] = Logged(LogOrphan, cs[j])
            /\ Len(log') = Len(cs)
            /\ \A j \in DOMAIN cs : log'[j].id = cs[j].id /\ log'[j].target = cs[j].target]_vars

\* C33, the case: the last response held the edge n1 -> n2 before the add_node
\* changes of n1 and n2; the edge was dropped and the two nodes were added.
EdgeBeforeItsNodes ==
  /\ Len(log) = 3
  /\ log[1] = Logged(LogOrphan, ScenarioA[3])
  /\ log[2].msg = LogAddedNode /\ log[3].msg = LogAddedNode
  /\ {101, 102} \subseteq NodeIds(nodes)
  /\ \A i \in DOMAIN edges : edges[i].source # 101

\* The ids of the nodes renumberByFlowSequence starts its traversal from.
TraversalRoots(ns, es) ==
  LET incoming == {es[i].target : i \in DOMAIN es}
      startNodes == SelectSeq(ns, LAMBDA n : n.id \notin incoming)
  IN MapId(IF startNodes # <<>> THEN startNodes ELSE <<ns[1]>>)

\* C34: renumberByFlowSequence terminates on every finite graph - with cycles,
\* self-loops, no root, edges to missing nodes - and its result holds each input
\* node exactly once: traverseFlow is called at most once per root and once per
\* edge, the result has the nodes of the input with nothing but the numbering
\* changed, and the nodes the traversal did not reach come last, in stored order.
RenumberTotal ==
  nodes # <<>> =>
    \E out \in {renumberByFlowSequence(nodes, edges)} :
    \E roots \in {TraversalRoots(nodes, edges)} :
    \E reached \in {TraverseFlow(roots, {}, <<>>, 1, nodes, edges).visited} :
    \E orphans \in {SelectSeq(nodes, LAMBDA n : n.id \notin reached)} :
       /\ TraverseCalls(roots, {}, nodes, edges) <= Len(roots) + Len(edges)
       /\ Len(out) = Len(nodes)
       /\ \A i \in DOMAIN nodes :
             Cardinality({j \in DOMAIN out : out[j].id = nodes[i].id}) = 1
       /\ WithoutNumbers(out) = WithoutNumbers(nodes)
       /\ MapId(SubSeq(out, Len(out) - Len(orphans) + 1, Len(out))) = MapId(orphans)

\* C34, the case: a renumbered graph without a root, with a self-loop and an edge
\* to a missing node, whose second step the traversal from the first one did not
\* reach.
RootlessRenumbered ==
  /\ Len(nodes) = 2 /\ nodes[1].lid = 1 /\ nodes[2].lid = 2
  /\ \A i \in DOMAIN nodes : \E e \in DOMAIN edges : edges[e].target = nodes[i].id
  /\ \E e \in DOMAIN edges : edges[e].source = edges[e].target
  /\ \E e \in DOMAIN edges : edges[e].source = nodes[1].id /\ edges[e].target = 0
  /\ \A e \in DOMAIN edges : edges[e].target = nodes[2].id => edges[e].source = nodes[2].id

\* C35: the layout after a batch does not move a dragged node - for every
\* response with changes, every node that lies where the user dropped it before
\* the response lies there after it.
DraggedNodesStay ==
  [][\A k \in DOMAIN inflight : \A cs \in Batches :
       Response(k, cs) =>
         \A i \in DOMAIN nodes :
            nodes[i].pos = "dropped" =>
              \E j \in DOMAIN nodes' :
                 nodes'[j].id = nodes[i].id /\ nodes'[j].pos = "dropped"]_vars

\* C36: a user edit of a node's text marks that node and touches nothing else -
\* handleTextBlur with a new label leaves the node with that label and
\* user_modified set, and leaves every other node, the edges, the snapshots of
\* the history and the cursor as they were.
EditTouchesOneNode ==
  [][\A i \in DOMAIN nodes : \A l \in UserLabels :
       EditLabel(i, l) =>
         /\ Len(nodes') = Len(nodes)
         /\ nodes'[i].um /\ nodes'[i].label = l
         /\ \A j \in DOMAIN nodes \ {i} : DeepCopy(nodes')[j] = DeepCopy(nodes)[j]
         /\ edges' = edges
         /\ Copies(history') = Copies(history)
         /\ historyIndex' = historyIndex]_vars

\* C37: history snapshots are immutable - a step that saves no snapshot (a label
\* edit, a response with update_node changes, undo, redo) leaves every snapshot
\* as it was, and a step that saves one leaves the snapshots below the new one
\* as they were.
SnapshotsImmutable ==
  [][/\ pushes' = pushes => Copies(history') = Copies(history)
     /\ pushes' = pushes + 1 =>
          \A k \in 1 .. (Len(history') - 1) :
             k \in DOMAIN history /\ Copies(history')[k] = Copies(history)[k]]_vars

\* A node the user added after the request k was sent.
AddedSince(k, n) == ~HasNode(inflight[k].nodes, n.id)

\* An edge the user drew after the request k was sent.
DrawnSince(k, e) == \A j \in DOMAIN inflight[k].edges : inflight[k].edges[j].id # e.id

\* C38: no lost user edits - when the response of a request is applied, every
\* node the user added and every edge the user drew since the request was sent
\* is still in the live graph, and every node whose label the user typed is still
\* there with that label.
NoLostUserEdits ==
  [][\A k \in DOMAIN inflight : \A cs \in Batches :
       Response(k, cs) =>
         /\ \A i \in DOMAIN nodes :
               AddedSince(k, nodes[i]) => HasNode(nodes', nodes[i].id)
         /\ \A i \in DOMAIN edges :
               DrawnSince(k, edges[i]) => \E j \in DOMAIN edges' : edges'[j] = edges[i]
         /\ \A i \in DOMAIN nodes :
               (nodes[i].um /\ nodes[i].label \in UserLabels) =>
                  \E j \in DOMAIN nodes' :
                     nodes'[j].id = nodes[i].id /\ nodes'[j].label = nodes[i].label]_vars

NextLogicalIdFresh ==
  [][AddNode("step") =>
       /\ nodes'[Len(nodes')].lid = MaxOf({0} \cup {nodes[i].lid : i \in DOMAIN nodes}) + 1
       /\ \A i \in DOMAIN nodes : nodes[i].lid # nodes'[Len(nodes')].lid]_vars

====
